---------------------------- MODULE Spec2Model ----------------------------
(***************************************************************************)
(* A model of shooting-star (src/src/main.rs), a gemini server: the        *)
(* request pipeline (parse_request, process_request, Response::render)     *)
(* and the per-connection lifecycle (main's accept loop and                *)
(* process_tls_stream).                                                    *)
(*                                                                         *)
(* Text.  A byte string is a sequence of tokens, each token a record       *)
(* [s, n]: s is the token's text and n its length in bytes.  A token is a  *)
(* word ("gemini", "example.com"), a single character (":", "/", CR, LF,   *)
(* space), a run of n 'a' characters (s = "a"), the byte order mark        *)
(* U+FEFF (3 bytes in UTF-8) or n bytes that are not valid UTF-8           *)
(* (s = "XX").  Lengths are the real byte lengths, so that the 1024 and    *)
(* 1026 of the code keep their meaning.                                    *)
(***************************************************************************)
EXTENDS Integers, Sequences, FiniteSets, TLC

W(s) == [s |-> s, n |-> Len(s)]
A(k) == [s |-> "a", n |-> k]
XX(k) == [s |-> "XX", n |-> k]
BOM == [s |-> "BOM", n |-> 3]
CR == W("\r")
LF == W("\n")
SP == W(" ")
COLON == W(":")
SLASH == W("/")
CRLF == <<CR, LF>>

None == [some |-> FALSE]
Some(v) == [some |-> TRUE, v |-> v]

Min(a, b) == IF a <= b THEN a ELSE b

RECURSIVE ByteLen(_)
ByteLen(t) == IF t = <<>> THEN 0 ELSE t[1].n + ByteLen(Tail(t))

\* A token cut after its first k bytes: a run of 'a' stays a run, a cut
\* multi-byte character is no longer valid UTF-8.
CutToken(tok, k) == IF tok.s = "a" THEN A(k) ELSE XX(k)

\* The first n bytes of t (buffer[0..n]) and what follows them.
RECURSIVE Take(_, _)
Take(t, n) ==
  IF n <= 0 \/ t = <<>> THEN <<>>
  ELSE IF t[1].n <= n THEN <<t[1]>> \o Take(Tail(t), n - t[1].n)
  ELSE <<CutToken(t[1], n)>>

RECURSIVE Drop(_, _)
Drop(t, n) ==
  IF n <= 0 \/ t = <<>> THEN t
  ELSE IF t[1].n <= n THEN Drop(Tail(t), n - t[1].n)
  ELSE <<CutToken(t[1], t[1].n - n)>> \o Tail(t)

\* Words separated by single spaces.
RECURSIVE Words(_)
Words(ws) ==
  IF ws = <<>> THEN <<>>
  ELSE IF Len(ws) = 1 THEN <<W(ws[1])>>
  ELSE <<W(ws[1]), SP>> \o Words(Tail(ws))

\* String::from_utf8 succeeds.
from_utf8_ok(bytes) == \A i \in 1..Len(bytes) : bytes[i].s # "XX"

\* str::split_once("\r\n"): the text before the first CRLF, if there is one.
CrlfAt(t) == {i \in 1..(Len(t) - 1) : t[i] = CR /\ t[i + 1] = LF}
FirstCrlf(t) == CHOOSE i \in CrlfAt(t) : \A j \in CrlfAt(t) : i <= j
split_once(t) ==
  IF CrlfAt(t) = {} THEN None ELSE Some(SubSeq(t, 1, FirstCrlf(t) - 1))

Contains(seq, x) == \E i \in 1..Len(seq) : seq[i] = x

(***************************************************************************)
(* Status, ResponseHeader, Response.                                       *)
(***************************************************************************)
Status == {"Success", "TemporaryFailure", "ProxyRequestRefused", "NotFound",
           "BadRequest"}

\* Mutant: NotFound is given the reserved code of PermanentFailure.
code_reserved(status) ==
  CASE status = "Success" -> 20
    [] status = "TemporaryFailure" -> 40
    [] status = "ProxyRequestRefused" -> 53
    [] status = "NotFound" -> 50
    [] status = "BadRequest" -> 59

code(status) ==
  CASE status = "Success" -> 20
    [] status = "TemporaryFailure" -> 40
    [] status = "ProxyRequestRefused" -> 53
    [] status = "NotFound" -> 51
    [] status = "BadRequest" -> 59

ResponseHeader_new(status, meta) == [status |-> status, meta |-> meta]

\* format!("{}", n) of an unsigned integer: its decimal digits.
Digit(d) ==
  CASE d = 0 -> W("0") [] d = 1 -> W("1") [] d = 2 -> W("2") [] d = 3 -> W("3")
    [] d = 4 -> W("4") [] d = 5 -> W("5") [] d = 6 -> W("6") [] d = 7 -> W("7")
    [] d = 8 -> W("8") [] d = 9 -> W("9")
RECURSIVE Decimal(_)
Decimal(n) == IF n < 10 THEN <<Digit(n)>> ELSE Decimal(n \div 10) \o <<Digit(n % 10)>>

\* Mutant: the status code and the meta text are written with nothing
\* between them.
render_no_separator(header) ==
  Decimal(code(header.status)) \o header.meta \o CRLF

ResponseHeader_render(header) ==
  Decimal(code(header.status)) \o <<SP>> \o header.meta \o CRLF

\* Mutant: the body is left out.
render_header_only(response) == ResponseHeader_render(response.header)

Response_render(response) ==
  IF response.header.status = "Success"
  THEN ResponseHeader_render(response.header)
         \o (IF response.body.some THEN response.body.v ELSE <<>>)
  ELSE ResponseHeader_render(response.header)

(***************************************************************************)
(* Url::parse (the url crate), on the alphabet of the model: words,        *)
(* ":", "/", lone CR and LF, runs of 'a'.  A URL is                        *)
(*   scheme ":" [ "//" [ host [ ":" [ port ] ] ] ] path                    *)
(* The scheme is lowercased; "http" is a special scheme (its host may not  *)
(* be empty, its empty path becomes "/"), every other scheme is not        *)
(* (an empty host is no host, the path is kept as written); a port above   *)
(* 65535 is an error; CR and LF are removed from the input.  The alphabet  *)
(* holds no dot segment, query, fragment or character that is              *)
(* percent-encoded.                                                        *)
(***************************************************************************)
PortWords == {"1965", "1966", "70000"}
Punct == {":", "/", " ", "\r", "\n", "BOM", "XX"}
IsSchemeTok(t) == t.s \notin Punct /\ t.s \notin PortWords
IsHostTok(t) == t.s \notin Punct
IsPortTok(t) == t.s \in PortWords
PortVal(t) ==
  CASE t.s = "1965" -> 1965 [] t.s = "1966" -> 1966 [] t.s = "70000" -> 70000
MaxPort == 65535
Lower(t) == IF t.s = "GEMINI" THEN W("gemini") ELSE t
IsSpecial(scheme) == scheme = W("http")

ParseErr == [ok |-> FALSE]
Url(scheme, host, port, path, cbb) ==
  [ok |-> TRUE, scheme |-> scheme, host |-> host, port |-> port, path |-> path,
   cannot_be_a_base |-> cbb]

IsNotCrLf(t) == t # CR /\ t # LF
IsNotSlash(t) == t # SLASH
SlashAt(t) == {i \in 1..Len(t) : t[i] = SLASH}
\* The index of the first "/" of t, Len(t) + 1 when it has none.
FirstSlash(t) ==
  IF SlashAt(t) = {} THEN Len(t) + 1
  ELSE CHOOSE i \in SlashAt(t) : \A j \in SlashAt(t) : i <= j

\* A special scheme ignores the slashes before its authority.
RECURSIVE SkipSlashes(_)
SkipSlashes(t) == IF t # <<>> /\ t[1] = SLASH THEN SkipSlashes(Tail(t)) ELSE t

ParseAuthority(auth) ==
  CASE auth = <<>> -> [ok |-> TRUE, host |-> None, port |-> None]
    [] Len(auth) = 1 /\ IsHostTok(auth[1]) ->
         [ok |-> TRUE, host |-> Some(<<auth[1]>>), port |-> None]
    [] Len(auth) = 2 /\ IsHostTok(auth[1]) /\ auth[2] = COLON ->
         [ok |-> TRUE, host |-> Some(<<auth[1]>>), port |-> None]
    [] Len(auth) = 3 /\ IsHostTok(auth[1]) /\ auth[2] = COLON
         /\ IsPortTok(auth[3]) /\ PortVal(auth[3]) <= MaxPort ->
         [ok |-> TRUE, host |-> Some(<<auth[1]>>), port |-> Some(PortVal(auth[3]))]
    [] OTHER -> [ok |-> FALSE]

ParseSpecial(scheme, rest) ==
  LET r == SkipSlashes(rest)
      i == FirstSlash(r)
      a == ParseAuthority(SubSeq(r, 1, i - 1))
      p == SubSeq(r, i, Len(r))
  IN  IF ~a.ok \/ ~a.host.some THEN ParseErr
      ELSE Url(scheme, a.host, a.port, IF p = <<>> THEN <<SLASH>> ELSE p, FALSE)

ParseNonSpecial(scheme, rest) ==
  IF Len(rest) >= 2 /\ rest[1] = SLASH /\ rest[2] = SLASH
  THEN LET r == SubSeq(rest, 3, Len(rest))
           i == FirstSlash(r)
           a == ParseAuthority(SubSeq(r, 1, i - 1))
       IN  IF ~a.ok THEN ParseErr
           ELSE Url(scheme, a.host, a.port, SubSeq(r, i, Len(r)), FALSE)
  ELSE IF rest # <<>> /\ rest[1] = SLASH THEN Url(scheme, None, None, rest, FALSE)
  ELSE Url(scheme, None, None, rest, TRUE)

Url_parse(input) ==
  LET line == SelectSeq(input, IsNotCrLf)
  IN  IF Len(line) < 2 \/ ~IsSchemeTok(line[1]) \/ line[2] # COLON THEN ParseErr
      ELSE LET scheme == Lower(line[1])
               rest == SubSeq(line, 3, Len(line))
           IN  IF IsSpecial(scheme) THEN ParseSpecial(scheme, rest)
               ELSE ParseNonSpecial(scheme, rest)

(***************************************************************************)
(* parse_request                                                           *)
(***************************************************************************)
MaxUrlLen == 1024
ErrBom ==
  Words(<<"The", "request", "MUST", "NOT", "begin", "with", "a", "U+FEFF",
          "byte", "order", "mark.">>)
ErrTooLong ==
  Words(<<"URL", "is", "too", "long.", "Maximum", "length", "is", "1024",
          "bytes.">>)
ErrParse == Words(<<"Error", "parsing", "the", "url">>)

starts_with_bom(request_line) == request_line # <<>> /\ request_line[1] = BOM

\* Mutant: the length is checked before the byte order mark.
parse_request_length_first(request_line) ==
  IF ByteLen(request_line) > MaxUrlLen THEN [ok |-> FALSE, err |-> ErrTooLong]
  ELSE IF starts_with_bom(request_line) THEN [ok |-> FALSE, err |-> ErrBom]
  ELSE LET u == Url_parse(request_line)
       IN  IF u.ok THEN [ok |-> TRUE, url |-> u]
           ELSE [ok |-> FALSE, err |-> ErrParse]

parse_request(request_line) ==
  IF starts_with_bom(request_line) THEN [ok |-> FALSE, err |-> ErrBom]
  ELSE IF ByteLen(request_line) > MaxUrlLen THEN [ok |-> FALSE, err |-> ErrTooLong]
  ELSE LET u == Url_parse(request_line)
       IN  IF u.ok THEN [ok |-> TRUE, url |-> u]
           ELSE [ok |-> FALSE, err |-> ErrParse]

(***************************************************************************)
(* The filesystem: a function from the components of an absolute path to   *)
(* an entry [kind, readable, content]; a path outside its domain does not  *)
(* exist.  PathBuf is a text.                                              *)
(***************************************************************************)
Components(path) == SelectSeq(path, IsNotSlash)

PathBuf_push(base, p) ==
  IF p # <<>> /\ p[1] = SLASH THEN p
  ELSE IF base # <<>> /\ base[Len(base)] = SLASH THEN base \o p
  ELSE base \o <<SLASH>> \o p

\* Path::exists: the path names a file or a directory ("file/" names nothing).
exists(fs, path) ==
  LET c == Components(path)
  IN  /\ c \in DOMAIN fs
      /\ fs[c].kind = "dir" \/ path[Len(path)] # SLASH

\* fs::read_to_string: the contents of a readable file that is valid UTF-8.
read_to_string(fs, path) ==
  LET c == Components(path)
  IN  IF exists(fs, path) /\ fs[c].kind = "file" /\ fs[c].readable
         /\ from_utf8_ok(fs[c].content)
      THEN Some(fs[c].content) ELSE None

(***************************************************************************)
(* process_request.  A response carries, beside the fields of Response,    *)
(* the filesystem calls made to produce it (fs_calls).                     *)
(***************************************************************************)
Response(status, meta, body, calls) ==
  [header |-> ResponseHeader_new(status, meta), body |-> body, fs_calls |-> calls]

NotGeminiRequest(url, config) ==
  \/ url.scheme # W("gemini")
  \/ url.cannot_be_a_base
  \/ (url.port.some /\ url.port.v # config.port)

HostNotServed(url, config) ==
  url.host.some /\ ~Contains(config.allowed_hosts, url.host.v)

\* Mutant: the host is checked before the scheme and the port.
authorize_host_first(url, config) ==
  IF HostNotServed(url, config)
  THEN Some(Response("ProxyRequestRefused",
                     Words(<<"This", "host", "is", "not", "served", "here.">>),
                     None, <<>>))
  ELSE IF NotGeminiRequest(url, config)
  THEN Some(Response("ProxyRequestRefused", Words(<<"Not", "a", "gemini", "request.">>),
                     None, <<>>))
  ELSE None

\* The authorization checks: the refusal, or None for a URL that passes.
authorize(url, config) ==
  IF NotGeminiRequest(url, config)
  THEN Some(Response("ProxyRequestRefused", Words(<<"Not", "a", "gemini", "request.">>),
                     None, <<>>))
  ELSE IF HostNotServed(url, config)
  THEN Some(Response("ProxyRequestRefused",
                     Words(<<"This", "host", "is", "not", "served", "here.">>),
                     None, <<>>))
  ELSE None

\* Mutant: only the first separator is removed.
trim_one(t) == IF t # <<>> /\ t[1] = SLASH THEN Tail(t) ELSE t

\* str::trim_start_matches('/'): every leading separator is removed.
RECURSIVE TrimAll(_)
TrimAll(t) == IF t # <<>> /\ t[1] = SLASH THEN TrimAll(Tail(t)) ELSE t
trim_start_matches(t) == TrimAll(t)

DefaultPath == <<SLASH, W("index.gmi")>>

read_path(url, config) ==
  LET path == IF url.path = <<SLASH>> \/ url.path = <<>> THEN DefaultPath
              ELSE url.path
  IN  PathBuf_push(config.root, trim_start_matches(path))

\* Mutant: the file is read without asking whether it exists.
resolve_no_exists(url, config, fs) ==
  LET p == read_path(url, config)
      body == read_to_string(fs, p)
  IN  IF body.some
      THEN Response("Success", <<W("text/gemini")>>, body,
                    <<[op |-> "read_to_string", path |-> p]>>)
      ELSE Response("TemporaryFailure", Words(<<"Internal", "Server", "Error">>),
                    None, <<[op |-> "read_to_string", path |-> p]>>)

resolve(url, config, fs) ==
  LET p == read_path(url, config)
      body == read_to_string(fs, p)
  IN  IF ~exists(fs, p)
      THEN Response("NotFound", Words(<<"Not", "Found">>), None,
                    <<[op |-> "exists", path |-> p]>>)
      ELSE IF body.some
      THEN Response("Success", <<W("text/gemini")>>, body,
                    <<[op |-> "exists", path |-> p],
                      [op |-> "read_to_string", path |-> p]>>)
      ELSE Response("TemporaryFailure", Words(<<"Internal", "Server", "Error">>),
                    None,
                    <<[op |-> "exists", path |-> p],
                      [op |-> "read_to_string", path |-> p]>>)

process_request(request, config, fs) ==
  LET r == parse_request(request)
  IN  IF ~r.ok THEN Response("BadRequest", r.err, None, <<>>)
      ELSE LET refusal == authorize(r.url, config)
           IN  IF refusal.some THEN refusal.v
               ELSE resolve(r.url, config, fs)

(***************************************************************************)
(* Config, as main builds it from the command line.                        *)
(***************************************************************************)
DefaultHost == <<W("0.0.0.0")>>
DefaultPort == 1965
Root == <<SLASH, W("srv")>>

\* Mutant: the bind host is not added to the allowed hosts.
Config_no_bind_host(args) ==
  [host |-> IF args.host.some THEN args.host.v ELSE DefaultHost,
   port |-> IF args.port.some THEN args.port.v ELSE DefaultPort,
   root |-> args.root,
   allowed_hosts |-> args.allowed_hosts]

Config(args) ==
  LET host == IF args.host.some THEN args.host.v ELSE DefaultHost
  IN  [host |-> host,
       port |-> IF args.port.some THEN args.port.v ELSE DefaultPort,
       root |-> args.root,
       allowed_hosts |-> Append(args.allowed_hosts, host)]

(***************************************************************************)
(* The inputs the model draws from.                                        *)
(***************************************************************************)
ArgsSet ==
  [host : {None, Some(<<W("example.com")>>)},
   port : {None, Some(1966)},
   root : {Root},
   allowed_hosts : {<<>>, <<<<W("example.com")>>>>}]

File(content) == [kind |-> "file", readable |-> TRUE, content |-> content]
Dir == [kind |-> "dir", readable |-> TRUE, content |-> <<>>]
Hi == Words(<<"#", "Hi">>)

\* A document root with a default document, a directory, a file that is
\* not valid UTF-8 and a file that may not be read; and a file outside it.
FsServed ==
  (<<W("srv")>> :> Dir)
  @@ (<<W("srv"), W("index.gmi")>> :> File(Hi))
  @@ (<<W("srv"), W("docs")>> :> Dir)
  @@ (<<W("srv"), W("docs"), W("index.gmi")>> :> File(<<W("docs")>> \o CRLF \o Hi))
  @@ (<<W("srv"), W("blob.bin")>> :> File(<<XX(2), W("x")>>))
  @@ (<<W("srv"), W("locked.gmi")>> :>
        [kind |-> "file", readable |-> FALSE, content |-> Hi])
  @@ (<<W("index.gmi")>> :> File(<<W("outside")>>))
\* An empty document root.
FsEmpty == (<<W("srv")>> :> Dir)
FileSystems == {FsServed, FsEmpty}

Prefixes == {<<>>, <<BOM>>}
SchemeParts ==
  {<<>>, <<W("gemini"), COLON>>, <<W("GEMINI"), COLON>>, <<W("http"), COLON>>}
AuthorityParts ==
  {<<>>,
   <<SLASH, SLASH>>,
   <<SLASH, SLASH, W("example.com")>>,
   <<SLASH, SLASH, W("evil.com")>>,
   <<SLASH, SLASH, W("0.0.0.0")>>,
   <<SLASH, SLASH, W("example.com"), COLON>>,
   <<SLASH, SLASH, W("example.com"), COLON, W("1965")>>,
   <<SLASH, SLASH, W("example.com"), COLON, W("1966")>>,
   <<SLASH, SLASH, W("example.com"), COLON, W("70000")>>,
   <<SLASH, SLASH, W("evil.com"), COLON, W("1965")>>}
\* The longest path makes "gemini://example.com" + path 1024 bytes long,
\* the next one 1025.
LongPath == MaxUrlLen - 21
PathParts ==
  {<<>>,
   <<SLASH>>,
   <<SLASH, SLASH>>,
   <<W("index.gmi")>>,
   <<SLASH, W("index.gmi")>>,
   <<SLASH, SLASH, W("index.gmi")>>,
   <<SLASH, W("index.gmi"), SLASH>>,
   <<SLASH, W("missing.gmi")>>,
   <<SLASH, W("docs")>>,
   <<SLASH, W("docs"), SLASH, W("index.gmi")>>,
   <<SLASH, W("blob.bin")>>,
   <<SLASH, W("locked.gmi")>>,
   <<SLASH, A(LongPath)>>,
   <<SLASH, A(LongPath + 1)>>}

\* Two words side by side would read as one longer word: left out.
Joins(a, p) ==
  ~(a # <<>> /\ p # <<>> /\ a[Len(a)].s \notin Punct /\ p[1].s \notin Punct)

RequestLines ==
  UNION {{pre \o sch \o au \o pa :
            pre \in Prefixes, sch \in SchemeParts,
            pa \in {p \in PathParts : Joins(au, p)}} : au \in AuthorityParts}

(***************************************************************************)
(* What a client may send on a connection.                                 *)
(***************************************************************************)
BufSize == 1026
ValidUrl == <<W("gemini"), COLON, SLASH, SLASH, W("example.com"), SLASH>>
ClientData ==
  {ValidUrl \o CRLF,
   <<W("http"), COLON, SLASH, SLASH, W("example.com"), SLASH>> \o CRLF,
   <<BOM>> \o ValidUrl \o CRLF,
   ValidUrl \o CRLF \o ValidUrl \o <<W("missing.gmi")>>,
   ValidUrl \o CRLF \o <<XX(1)>>,
   ValidUrl \o <<A(LongPath)>> \o CRLF,
   <<A(MaxUrlLen + 1)>> \o CRLF}

\* The sizes a read of the pending bytes may return: all of them, up to the
\* size of the buffer, or only the first ShortRead tokens (the transport
\* delivers the rest later).
ShortRead == 1
ReadSizes(wire) ==
  {Min(BufSize, ByteLen(wire)),
   Min(BufSize, ByteLen(SubSeq(wire, 1, Min(ShortRead, Len(wire)))))}

ServerArgs ==
  {[host |-> None, port |-> None, root |-> Root,
    allowed_hosts |-> <<<<W("example.com")>>>>]}
\* The same, and a server that is bound to the served host.
FairArgs ==
  ServerArgs
  \cup {[host |-> Some(<<W("example.com")>>), port |-> None, root |-> Root,
         allowed_hosts |-> <<>>]}

(***************************************************************************)
(* State.                                                                  *)
(***************************************************************************)
VARIABLES
  config,    \* main's Config
  fs,        \* the filesystem
  request,   \* the request line handed to process_request
  response,  \* what process_request returned for it, None before the call
  accepted,  \* the number of connections the accept loop has accepted
  conn       \* the connections, each with the state of its task

vars == <<config, fs, request, response, accepted, conn>>

MaxConns == 2
Conns == 1..MaxConns

Stages ==
  <<"Accepted", "Handshaking", "ReadingRequest", "Parsing", "Authorizing",
    "Resolving", "Rendering", "Writing", "Closed">>

\* A connection that is not accepted yet.
NoConn ==
  [pc |-> "Idle",
   config |-> None,      \* the task's clone of Config
   peer |-> "quiet",     \* what the client did: quiet, sent, closed, reset
   sent |-> <<>>,        \* the bytes the client sent
   wire |-> <<>>,        \* those of them not read yet
   reads |-> 0,          \* the calls of stream.read
   buffer |-> <<>>,      \* buffer[0..n] of the read
   line |-> <<>>,        \* request_line
   url |-> ParseErr,     \* the parsed URL
   response |-> None,    \* the Response
   out |-> <<>>,         \* response.render()
   written |-> <<>>,     \* the responses written to the stream
   end |-> "open"]       \* how the stream was closed

(***************************************************************************)
(* process_request applied to one request line.                            *)
(***************************************************************************)
RequestInit ==
  /\ config \in {Config(a) : a \in ArgsSet}
  /\ fs \in FileSystems
  /\ request \in RequestLines
  /\ response = None
  /\ accepted = 0
  /\ conn = [c \in Conns |-> NoConn]

ProcessRequest ==
  /\ ~response.some
  /\ response' = Some(process_request(request, config, fs))
  /\ UNCHANGED <<config, fs, request, accepted, conn>>

RequestNext == ProcessRequest

RequestSpec == RequestInit /\ [][RequestNext]_vars

(***************************************************************************)
(* The server: main's accept loop and one task per connection.             *)
(***************************************************************************)
Init ==
  /\ config \in {Config(a) : a \in ServerArgs}
  /\ fs = FsServed
  /\ request = <<>>
  /\ response = None
  /\ accepted = 0
  /\ conn = [c \in Conns |-> NoConn]

Set(c, state) ==
  /\ conn' = [conn EXCEPT ![c] = state]
  /\ UNCHANGED <<config, fs, request, response>>

\* stream.shutdown().await.expect(..): the stream is closed either way.
ShutdownEnds == {"shutdown", "shutdown_panic"}

\* Mutant: the loop handles a connection itself before it accepts the next.
Accept_serial(limit) ==
  /\ accepted < limit
  /\ \A c \in 1..accepted : conn[c].pc = "Closed"
  /\ accepted' = accepted + 1
  /\ Set(accepted + 1, [conn[accepted + 1] EXCEPT !.pc = "Accepted", !.config = Some(config)])

\* tcp.accept(), config.clone(), tokio::spawn.
Accept(limit) ==
  /\ accepted < limit
  /\ accepted' = accepted + 1
  /\ Set(accepted + 1, [conn[accepted + 1] EXCEPT !.pc = "Accepted", !.config = Some(config)])

\* The spawned task starts: tls_acceptor.accept(socket).
StartTask(c) ==
  /\ conn[c].pc = "Accepted"
  /\ Set(c, [conn[c] EXCEPT !.pc = "Handshaking"])
  /\ UNCHANGED accepted

\* Mutant: a failed handshake brings the process down, and with it every
\* connection that is open.
Handshake_fatal(c) ==
  /\ conn[c].pc = "Handshaking"
  /\ \/ Set(c, [conn[c] EXCEPT !.pc = "ReadingRequest"])
     \/ /\ conn' = [d \in Conns |->
                     IF d = c
                     THEN [conn[d] EXCEPT !.pc = "Closed", !.end = "handshake_failed"]
                     ELSE IF conn[d].pc \in {"Idle", "Closed"} THEN conn[d]
                     ELSE [conn[d] EXCEPT !.pc = "Closed", !.end = "aborted"]]
        /\ UNCHANGED <<config, fs, request, response>>
  /\ UNCHANGED accepted

\* The handshake ends: Ok(stream), or Err(e) and the task ends.
Handshake(c) ==
  /\ conn[c].pc = "Handshaking"
  /\ \/ Set(c, [conn[c] EXCEPT !.pc = "ReadingRequest"])
     \/ Set(c, [conn[c] EXCEPT !.pc = "Closed", !.end = "handshake_failed"])
  /\ UNCHANGED accepted

\* The client sends bytes, closes its end, or the transport breaks.
PeerSend(c) ==
  /\ conn[c].pc = "ReadingRequest" /\ conn[c].peer = "quiet"
  /\ \E data \in ClientData : Set(c, [conn[c] EXCEPT !.peer = "sent", !.sent = data, !.wire = data])
  /\ UNCHANGED accepted

PeerClose(c) ==
  /\ conn[c].pc = "ReadingRequest" /\ conn[c].peer = "quiet"
  /\ Set(c, [conn[c] EXCEPT !.peer = "closed"])
  /\ UNCHANGED accepted

PeerReset(c) ==
  /\ conn[c].pc = "ReadingRequest" /\ conn[c].peer = "quiet"
  /\ Set(c, [conn[c] EXCEPT !.peer = "reset"])
  /\ UNCHANGED accepted

\* Mutant: a request line is taken only from a read that ends with CRLF.
AfterRead_whole(buffer) ==
  IF Len(buffer) < 2 THEN None
  ELSE IF ~from_utf8_ok(buffer) THEN None
  ELSE IF buffer[Len(buffer) - 1] = CR /\ buffer[Len(buffer)] = LF
  THEN split_once(buffer) ELSE None

\* Mutant: a read without a CRLF is taken to be the request line.
AfterRead_lenient(buffer) ==
  IF Len(buffer) = 0 THEN None
  ELSE IF ~from_utf8_ok(buffer) THEN None
  ELSE IF CrlfAt(buffer) = {} THEN Some(buffer)
  ELSE split_once(buffer)

\* Where process_tls_stream goes with the n bytes of its read: it returns
\* (n = 0, no UTF-8, no CRLF) or it has a request line.
AfterRead(buffer) ==
  IF Len(buffer) = 0 THEN None
  ELSE IF ~from_utf8_ok(buffer) THEN None
  ELSE split_once(buffer)

\* stream.read(&mut buffer).await.expect(..) and what follows it up to the
\* call of process_request.
Read(c) ==
  /\ conn[c].pc = "ReadingRequest" /\ conn[c].peer # "quiet"
  /\ \/ /\ conn[c].peer = "reset"
        /\ Set(c, [conn[c] EXCEPT !.pc = "Closed", !.reads = conn[c].reads + 1, !.end = "read_panic"])
     \/ /\ conn[c].peer = "closed"
        /\ \E e \in ShutdownEnds :
             Set(c, [conn[c] EXCEPT !.pc = "Closed", !.reads = conn[c].reads + 1, !.end = e])
     \/ /\ conn[c].peer = "sent"
        /\ \E n \in ReadSizes(conn[c].wire) :
             LET buffer == Take(conn[c].wire, n)
                 rest == Drop(conn[c].wire, n)
                 l == AfterRead(buffer)
             IN  \/ /\ l.some
                    /\ Set(c, [conn[c] EXCEPT !.pc = "Parsing", !.reads = conn[c].reads + 1,
                               !.buffer = buffer, !.wire = rest, !.line = l.v])
                 \/ /\ ~l.some
                    /\ \E e \in ShutdownEnds :
                         Set(c, [conn[c] EXCEPT !.pc = "Closed", !.reads = conn[c].reads + 1,
                                 !.buffer = buffer, !.wire = rest, !.end = e])
  /\ UNCHANGED accepted

\* Mutant: the request line is kept in one buffer that the tasks share, so
\* that a task parses the line of the connection accepted last.
Parse_shared(c) ==
  /\ conn[c].pc = "Parsing"
  /\ \E r \in {parse_request(conn[accepted].line)} :
         IF r.ok THEN Set(c, [conn[c] EXCEPT !.pc = "Authorizing", !.url = r.url])
         ELSE Set(c, [conn[c] EXCEPT !.pc = "Rendering",
                      !.response = Some(Response("BadRequest", r.err, None, <<>>))])
  /\ UNCHANGED accepted

\* process_request, step by step: parse_request ...
Parse(c) ==
  /\ conn[c].pc = "Parsing"
  /\ \E r \in {parse_request(conn[c].line)} :
         IF r.ok THEN Set(c, [conn[c] EXCEPT !.pc = "Authorizing", !.url = r.url])
         ELSE Set(c, [conn[c] EXCEPT !.pc = "Rendering",
                      !.response = Some(Response("BadRequest", r.err, None, <<>>))])
  /\ UNCHANGED accepted

\* ... the scheme, port and host checks ...
Authorize(c) ==
  /\ conn[c].pc = "Authorizing"
  /\ \E refusal \in {authorize(conn[c].url, conn[c].config.v)} :
         IF refusal.some THEN Set(c, [conn[c] EXCEPT !.pc = "Rendering", !.response = refusal])
         ELSE Set(c, [conn[c] EXCEPT !.pc = "Resolving"])
  /\ UNCHANGED accepted

\* Mutant: a document is handed out once, to the first connection; the
\* later ones find it taken.
Resolve_first_only(c) ==
  /\ conn[c].pc = "Resolving"
  /\ Set(c, [conn[c] EXCEPT !.pc = "Rendering",
             !.response =
               IF c = 1 THEN Some(resolve(conn[c].url, conn[c].config.v, fs))
               ELSE Some(Response("TemporaryFailure",
                                  <<W("Internal"), SP, W("Server"), SP, W("Error")>>,
                                  None, <<>>))])
  /\ UNCHANGED accepted

\* ... and the file.
Resolve(c) ==
  /\ conn[c].pc = "Resolving"
  /\ Set(c, [conn[c] EXCEPT !.pc = "Rendering",
             !.response = Some(resolve(conn[c].url, conn[c].config.v, fs))])
  /\ UNCHANGED accepted

\* response.render()
Render(c) ==
  /\ conn[c].pc = "Rendering"
  /\ Set(c, [conn[c] EXCEPT !.pc = "Writing", !.out = Response_render(conn[c].response.v)])
  /\ UNCHANGED accepted

\* Mutant: a failed write is tried again with a newly rendered response.
Write_retry(c) ==
  /\ conn[c].pc = "Writing"
  /\ \/ Set(c, [conn[c] EXCEPT !.pc = "Rendering"])
     \/ \E e \in ShutdownEnds :
          Set(c, [conn[c] EXCEPT !.pc = "Closed", !.written = Append(conn[c].written, conn[c].out),
                  !.end = e])
  /\ UNCHANGED accepted

\* stream.write_all(..).await.unwrap(), then main's stream.shutdown().
Write(c) ==
  /\ conn[c].pc = "Writing"
  /\ \/ Set(c, [conn[c] EXCEPT !.pc = "Closed", !.end = "write_panic"])
     \/ \E e \in ShutdownEnds :
          Set(c, [conn[c] EXCEPT !.pc = "Closed", !.written = Append(conn[c].written, conn[c].out),
                  !.end = e])
  /\ UNCHANGED accepted

Peer(c) == PeerSend(c) \/ PeerClose(c) \/ PeerReset(c)
Task(c) ==
  \/ StartTask(c) \/ Handshake(c) \/ Read(c) \/ Parse(c) \/ Authorize(c)
  \/ Resolve(c) \/ Render(c) \/ Write(c)

Next == Accept(MaxConns) \/ \E c \in Conns : Peer(c) \/ Task(c)

Spec == Init /\ [][Next]_vars

\* The same server with at most FairConns connections, under the fairness
\* of the tokio runtime: it runs every task that can take a step.
FairConns == 1
FairInit ==
  /\ config \in {Config(a) : a \in FairArgs}
  /\ fs = FsServed
  /\ request = <<>>
  /\ response = None
  /\ accepted = 0
  /\ conn = [c \in Conns |-> NoConn]

FairNext == Accept(FairConns) \/ \E c \in Conns : Peer(c) \/ Task(c)

FairSpec == FairInit /\ [][FairNext]_vars /\ \A c \in Conns : WF_vars(Task(c))

\* The server with at most CrowdConns connections whose clients send the
\* same valid request, close or break the transport. The runtime runs
\* every task that can take a step; how long a handshake takes is up to
\* the peer.
CrowdConns == 2
CrowdInit ==
  /\ config \in {Config(a) : a \in ServerArgs}
  /\ fs = FsServed
  /\ request = <<>>
  /\ response = None
  /\ accepted = 0
  /\ conn = [c \in Conns |-> NoConn]

CrowdSend(c) ==
  /\ conn[c].pc = "ReadingRequest" /\ conn[c].peer = "quiet"
  /\ Set(c, [conn[c] EXCEPT !.peer = "sent", !.sent = ValidUrl \o CRLF,
                            !.wire = ValidUrl \o CRLF])
  /\ UNCHANGED accepted

CrowdNext ==
  \/ Accept(CrowdConns)
  \/ \E c \in Conns : CrowdSend(c) \/ PeerClose(c) \/ PeerReset(c) \/ Task(c)

\* The same connections with every Config that main can build from ArgsSet.
StartInit ==
  /\ config \in {Config(a) : a \in ArgsSet}
  /\ fs = FsServed
  /\ request = <<>>
  /\ response = None
  /\ accepted = 0
  /\ conn = [c \in Conns |-> NoConn]

StartSpec == StartInit /\ [][CrowdNext]_vars

Ready(c) == Task(c) /\ conn[c].pc # "Handshaking"

CrowdSpec == CrowdInit /\ [][CrowdNext]_vars /\ \A c \in Conns : WF_vars(Ready(c))

(***************************************************************************)
(* Properties of process_request (RequestSpec).                            *)
(***************************************************************************)
Parsed == parse_request(request)
Done == response.some
Resp == response.v
StatusCode == code(Resp.header.status)

\* The URL passes every authorization check named by the specification.
Authorized(url, cfg) ==
  /\ url.scheme = W("gemini")
  /\ url.host.some
  /\ \E i \in 1..Len(cfg.allowed_hosts) : cfg.allowed_hosts[i] = url.host.v
  /\ url.port.some => url.port.v = cfg.port

ResolverReached == Resp.fs_calls # <<>> \/ StatusCode \in {20, 51, 40}

\* C1: the Resolver is reached (a response 20, 51 or 40 is produced, the
\* document root is consulted) only for a request whose URL has the scheme
\* "gemini", a host that is in allowed_hosts and no port or the configured
\* port; a URL with no host is refused with 53.
C1_ResolverOnlyWhenAuthorized ==
  (Done /\ ResolverReached) => (Parsed.ok /\ Authorized(Parsed.url, config))

\* C2: a parsed URL whose scheme is not "gemini", or whose explicit port is
\* not the configured one, or whose host is not in allowed_hosts, gets 53
\* with no body and no filesystem call; a wrong scheme gets the reason
\* "Not a gemini request.", a disallowed host with the right scheme and
\* port gets "This host is not served here.".
HostDisallowed(url, cfg) ==
  url.host.some /\ \A i \in 1..Len(cfg.allowed_hosts) : cfg.allowed_hosts[i] # url.host.v
PortMismatch(url, cfg) == url.port.some /\ url.port.v # cfg.port
ReasonNotGemini == <<W("Not"), SP, W("a"), SP, W("gemini"), SP, W("request.")>>
ReasonHost ==
  <<W("This"), SP, W("host"), SP, W("is"), SP, W("not"), SP, W("served"), SP,
    W("here.")>>
ResolvedEntry ==
  LET c == Components(read_path(Parsed.url, config))
  IN  IF c \in DOMAIN fs THEN Some(fs[c]) ELSE None
ResolvedIsText ==
  /\ exists(fs, read_path(Parsed.url, config))
  /\ ResolvedEntry.v.kind = "file" /\ ResolvedEntry.v.readable
  /\ \A i \in 1..Len(ResolvedEntry.v.content) : ResolvedEntry.v.content[i].s # "XX"

\* C3: a request line of at most 1024 bytes that parses to an authorized
\* URL whose resolved file exists and is readable as text gets status 20,
\* meta "text/gemini" and the file's contents as body: the bytes written
\* are "20 text/gemini\r\n" followed by exactly the contents.
C3_Success ==
  (Done /\ ByteLen(request) <= 1024 /\ Parsed.ok /\ Authorized(Parsed.url, config)
     /\ ResolvedIsText)
  => /\ StatusCode = 20
     /\ Resp.header.meta = <<W("text/gemini")>>
     /\ Resp.body = Some(ResolvedEntry.v.content)
     /\ Response_render(Resp)
          = <<W("2"), W("0"), SP, W("text/gemini"), CR, LF>> \o ResolvedEntry.v.content
C3_Witness ==
  /\ Done /\ Parsed.ok /\ Authorized(Parsed.url, config) /\ ResolvedIsText
  /\ Len(ResolvedEntry.v.content) > 3
  /\ StatusCode = 20

\* C5: a request line whose first character is U+FEFF gets status 59 with
\* no body and the byte-order-mark reason, whatever follows: also when the
\* line is longer than 1024 bytes, and when the rest of it is an
\* authorized URL.
C5_Bom ==
  (Done /\ request # <<>> /\ request[1] = BOM)
  => /\ StatusCode = 59
     /\ ~Resp.body.some
     /\ Resp.header.meta = ErrBom
     /\ Resp.fs_calls = <<>>
C5_Witness ==
  /\ Done /\ request # <<>> /\ request[1] = BOM
  /\ ByteLen(request) > 1024
  /\ parse_request(Tail(request)).ok
  /\ StatusCode = 59

ReasonNotFound == <<W("Not"), SP, W("Found")>>
ReasonInternal == <<W("Internal"), SP, W("Server"), SP, W("Error")>>
ResolvedExists == exists(fs, read_path(Parsed.url, config))
ResolvedIsReadableFile ==
  ResolvedExists /\ ResolvedEntry.v.kind = "file" /\ ResolvedEntry.v.readable

\* C6 as stated: an authorized URL whose resolved location is not an
\* existing readable regular file (absent, or a directory) gets 51
\* "Not Found" with no body.
C6_NotFoundUnlessReadableFile ==
  (Done /\ Parsed.ok /\ Authorized(Parsed.url, config) /\ ~ResolvedIsReadableFile)
  => /\ StatusCode = 51
     /\ Resp.header.meta = ReasonNotFound
     /\ ~Resp.body.some

\* C6, amended: an authorized URL whose resolved location does not exist
\* gets 51 "Not Found" with no body; one whose location exists but cannot
\* be read as text (a directory such as the document root itself, an
\* unreadable file, a file that is not UTF-8) gets 40 "Internal Server
\* Error" with no body.
C6_NotFoundWhenAbsent ==
  (Done /\ Parsed.ok /\ Authorized(Parsed.url, config))
  => /\ ~ResolvedExists
        => /\ StatusCode = 51
           /\ Resp.header.meta = ReasonNotFound
           /\ ~Resp.body.some
     /\ (ResolvedExists /\ ~ResolvedIsText)
        => /\ StatusCode = 40
           /\ Resp.header.meta = ReasonInternal
           /\ ~Resp.body.some
C6_Witness ==
  /\ Done /\ Parsed.ok /\ Authorized(Parsed.url, config)
  /\ fs = FsServed
  /\ ~ResolvedExists
  /\ StatusCode = 51

\* The location process_request asked the filesystem about.
AskedPath == Resp.fs_calls[1].path
IsRootPath(path) == path = <<>> \/ path = <<SLASH>>
UnderRoot(rest) == PathBuf_push(config.root, rest)

\* C7 as stated: for an authorized URL the resolved location is
\* document_root joined with "index.gmi" when the path is empty or "/",
\* and otherwise document_root joined with the path less exactly one
\* leading "/".
C7_StripOneSeparator ==
  (Done /\ Parsed.ok /\ Authorized(Parsed.url, config))
  => LET path == Parsed.url.path
     IN  /\ Resp.fs_calls # <<>>
         /\ Components(AskedPath)
              = Components(IF IsRootPath(path) THEN UnderRoot(<<W("index.gmi")>>)
                           ELSE IF path[1] = SLASH THEN UnderRoot(Tail(path))
                           ELSE UnderRoot(path))

\* C7, amended: for an authorized URL the resolved location is
\* document_root joined with "index.gmi" when the path is empty or "/",
\* and otherwise document_root joined with the path less all of its
\* leading "/" (k of them, the path's (k+1)st character not being one).
C7_StripEverySeparator ==
  (Done /\ Parsed.ok /\ Authorized(Parsed.url, config))
  => LET path == Parsed.url.path
     IN  /\ Resp.fs_calls # <<>>
         /\ IsRootPath(path) => AskedPath = config.root \o <<SLASH, W("index.gmi")>>
         /\ ~IsRootPath(path) =>
              \E k \in 0..Len(path) :
                /\ \A i \in 1..k : path[i] = SLASH
                /\ k < Len(path) => path[k + 1] # SLASH
                /\ AskedPath = config.root \o <<SLASH>> \o SubSeq(path, k + 1, Len(path))
C7_Witness ==
  /\ Done /\ Parsed.ok /\ Authorized(Parsed.url, config)
  /\ Len(Parsed.url.path) = 3
  /\ Parsed.url.path[1] = SLASH /\ Parsed.url.path[2] = SLASH
  /\ AskedPath = config.root \o <<SLASH, W("index.gmi")>>

\* C8: every Response of process_request carries one status of 20, 40, 51,
\* 53, 59 (never 50) and has a body if and only if its status is 20; a
\* response that is not a success is rendered as its header line alone.
C8_StatusAndBody ==
  Done =>
    /\ Resp.header.status \in Status
    /\ StatusCode \in {20, 40, 51, 53, 59}
    /\ Resp.body.some <=> StatusCode = 20
    /\ StatusCode # 20 =>
         Response_render(Resp)
           = Decimal(StatusCode) \o <<SP>> \o Resp.header.meta \o <<CR, LF>>
C8_Witness ==
  /\ Done
  /\ StatusCode = 40
  /\ ResolvedEntry.some /\ ResolvedEntry.v.content # <<>>
  /\ ~Resp.body.some

(***************************************************************************)
(* Properties of the connections (Spec, FairSpec).                         *)
(***************************************************************************)
TooLongResponse ==
  <<W("5"), W("9"), SP>>
  \o <<W("URL"), SP, W("is"), SP, W("too"), SP, W("long."), SP, W("Maximum"), SP,
       W("length"), SP, W("is"), SP, W("1024"), SP, W("bytes.")>>
  \o <<CR, LF>>

\* The client sent a line of more than 1024 bytes followed by CRLF.
SentTooLong(c) ==
  /\ conn[c].peer = "sent"
  /\ \E i \in 1..(Len(conn[c].sent) - 1) :
       /\ conn[c].sent[i] = CR /\ conn[c].sent[i + 1] = LF
       /\ \A j \in 1..(i - 1) : conn[c].sent[j] # CR
       /\ ByteLen(SubSeq(conn[c].sent, 1, i - 1)) > 1024

\* The read returned all it could hold and nothing failed.
ServedInFull(c) ==
  /\ conn[c].pc = "Closed" /\ conn[c].end = "shutdown"
  /\ ByteLen(conn[c].buffer) = Min(BufSize, ByteLen(conn[c].sent))

\* C4: on every connection where the client sends a request line longer
\* than 1024 bytes followed by CRLF, the server has written
\* "59 URL is too long. Maximum length is 1024 bytes.\r\n" when it closes.
C4_TooLongGets59 ==
  \A c \in Conns :
    (SentTooLong(c) /\ ServedInFull(c)) => conn[c].written = <<TooLongResponse>>

HasCrlf(t) == \E i \in 1..(Len(t) - 1) : t[i] = CR /\ t[i + 1] = LF
IsUtf8(t) == \A i \in 1..Len(t) : t[i].s # "XX"
ReadDone(c) == conn[c].pc = "Closed" /\ conn[c].reads > 0

Rank(pc) ==
  IF pc = "Idle" THEN 0 ELSE CHOOSE i \in 1..Len(Stages) : Stages[i] = pc

\* The transitions of the state machine of the specification.
Forward(from, to) ==
  \/ Rank(to) = Rank(from) + 1
  \/ from \in {"Parsing", "Authorizing"} /\ to = "Rendering"
  \/ from \in {"Handshaking", "ReadingRequest", "Writing"} /\ to = "Closed"

\* C10: every accepted connection only moves forward through Accepted,
\* Handshaking, ReadingRequest, Parsing, Authorizing, Resolving, Rendering,
\* Writing, Closed (a validation failure skipping to Rendering, a failure
\* or a silent drop to Closed), never back; and, the tasks being scheduled
\* fairly, once the peer has sent data or closed its end the connection
\* eventually is Closed.
C10_ForwardToClosed ==
  /\ [][\A c \in Conns :
          conn'[c].pc # conn[c].pc => Forward(conn[c].pc, conn'[c].pc)]_vars
  /\ \A c \in Conns : (conn[c].peer # "quiet") ~> (conn[c].pc = "Closed")
C10_Witness ==
  \E c \in Conns :
    /\ conn[c].pc = "Closed" /\ conn[c].end = "shutdown"
    /\ conn[c].url.ok
    /\ conn[c].response.some /\ conn[c].response.v.header.status = "Success"
    /\ conn[c].written = <<conn[c].out>>

InFlight(c) ==
  conn[c].pc \in {"Parsing", "Authorizing", "Resolving", "Rendering", "Writing"}

\* C11: in every interleaving of the connections, a step changes the state
\* of one connection at most (no step of a connection changes the request,
\* the response or the stage of another), and what a connection renders and
\* writes is the response of process_request to its own request line, the
\* Config and the document root, whatever the other connections do.
C11_NoInterference ==
  /\ [][\A c \in Conns :
          conn'[c] # conn[c] => \A d \in Conns \ {c} : conn'[d] = conn[d]]_vars
  /\ [](\A c \in Conns :
          conn[c].out # <<>> =>
            /\ conn[c].line = split_once(conn[c].buffer).v
            /\ conn[c].out
                 = Response_render(process_request(conn[c].line, config, fs))
            /\ conn[c].written \in {<<>>, <<conn[c].out>>})
C11_Witness ==
  \E c \in Conns : \E d \in Conns \ {c} :
    /\ conn[c].written # <<>>
    /\ InFlight(d) /\ conn[d].out # <<>>
    /\ conn[d].line # conn[c].line
    /\ conn[d].out # conn[c].out

\* C12: request lines that are identical, processed against the same Config
\* and document root on any connections in any interleaving, are answered
\* with byte-identical rendered responses.
C12_Idempotent ==
  \A c \in Conns : \A d \in Conns :
    (conn[c].written # <<>> /\ conn[d].written # <<>>
       /\ conn[c].line = conn[d].line /\ conn[c].config = conn[d].config)
    => conn[c].written = conn[d].written
C12_Witness ==
  \E c \in Conns : \E d \in Conns \ {c} :
    /\ conn[c].written # <<>> /\ conn[d].written # <<>>
    /\ conn[c].line = conn[d].line
    /\ conn[c].response.v.header.status = "Success"
    /\ conn[c].response.v.body.v # <<>>
    /\ conn[c].sent # conn[d].sent

\* What a client does with a header line: the text before the first space,
\* the text between that space and the first CRLF, and what follows the CRLF.
SpaceAt(t) == {i \in 1..Len(t) : t[i] = SP}
FirstSpace(t) == CHOOSE i \in SpaceAt(t) : \A j \in SpaceAt(t) : i <= j
BeforeSpace(t) == SubSeq(t, 1, FirstSpace(t) - 1)
AfterSpace(t) == SubSeq(t, FirstSpace(t) + 1, Len(t))
AfterCrlf(t) == SubSeq(t, FirstCrlf(t) + 2, Len(t))
IsDigitTok(tok) == \E d \in 0..9 : Digit(d) = tok
DigitValue(tok) == CHOOSE d \in 0..9 : Digit(d) = tok
TwoDigits(t) == 10 * DigitValue(t[1]) + DigitValue(t[2])

\* C13: for every (status, meta) pair of a Response of process_request,
\* the rendered header has a space; the text before the first space is two
\* digits that read as the status code, and the text after it, split at
\* the CRLF, is the meta text with nothing left over.
C13_RoundTrip ==
  Done =>
    LET h == ResponseHeader_render(Resp.header)
    IN  /\ SpaceAt(h) # {}
        /\ Len(BeforeSpace(h)) = 2
        /\ \A i \in 1..2 : IsDigitTok(BeforeSpace(h)[i])
        /\ TwoDigits(BeforeSpace(h)) = code(Resp.header.status)
        /\ split_once(AfterSpace(h)) = Some(Resp.header.meta)
        /\ AfterCrlf(AfterSpace(h)) = <<>>
C13_Witness ==
  /\ Done
  /\ Resp.header.status = "ProxyRequestRefused"
  /\ Cardinality(SpaceAt(Resp.header.meta)) > 3
  /\ TwoDigits(BeforeSpace(ResponseHeader_render(Resp.header))) = 53

\* The bytes up to and including the first CRLF.
ThroughCrlf(t) == SubSeq(t, 1, FirstCrlf(t) + 1)

\* The client sent one complete request line: valid UTF-8, at most 1024
\* bytes, terminated by the CRLF that ends what it sent.
SentValidLine(c) ==
  /\ conn[c].peer = "sent"
  /\ IsUtf8(conn[c].sent) /\ HasCrlf(conn[c].sent)
  /\ ThroughCrlf(conn[c].sent) = conn[c].sent
  /\ ByteLen(conn[c].sent) - 2 <= MaxUrlLen

ClosedNormally(c) == conn[c].pc = "Closed" /\ conn[c].end = "shutdown"

\* C14: a client that sends a complete, valid UTF-8 request line of at most
\* 1024 bytes terminated by CRLF has been written exactly one response when
\* its connection is closed without an I/O failure, however the transport
\* split the bytes across reads.
C14_ServedHoweverSplit ==
  \A c \in Conns :
    (SentValidLine(c) /\ ClosedNormally(c)) => Len(conn[c].written) = 1

\* C15: two reads that agree up to and including the first CRLF are
\* answered alike, whatever bytes follow the CRLF in either of them (bytes
\* that are not valid UTF-8 included).
C15_TrailingBytesIgnored ==
  \A c \in Conns : \A d \in Conns :
    (/\ ClosedNormally(c) /\ ClosedNormally(d)
     /\ HasCrlf(conn[c].buffer) /\ HasCrlf(conn[d].buffer)
     /\ ThroughCrlf(conn[c].buffer) = ThroughCrlf(conn[d].buffer))
    => conn[c].written = conn[d].written

Failed(c) ==
  /\ conn[c].pc = "Closed"
  /\ conn[c].end \in {"handshake_failed", "read_panic", "write_panic", "shutdown_panic"}

\* The connection has work that does not wait for its peer.
Running(c) ==
  \/ InFlight(c)
  \/ conn[c].pc = "Accepted"
  \/ conn[c].pc = "ReadingRequest" /\ conn[c].peer # "quiet"

\* The connection is closed, and with its response if it had a request
\* line and its own write did not fail.
Finished(c) ==
  /\ conn[c].pc = "Closed"
  /\ (conn[c].line # <<>> /\ conn[c].end \in ShutdownEnds)
     => (conn[c].out # <<>> /\ conn[c].written = <<conn[c].out>>)

\* C16: a failure on one connection (handshake, read, write or shutdown)
\* ends that connection's task only: the step that fails changes no other
\* connection and not the accept loop, the loop can accept the next
\* connection afterwards, and every other connection that is under way
\* still gets to its own response and close.
C16_FailureIsLocal ==
  /\ [][\A c \in Conns :
          (~Failed(c) /\ Failed(c)') =>
            (accepted' = accepted /\ \A d \in Conns \ {c} : conn'[d] = conn[d])]_vars
  /\ [](\A c \in Conns :
          (Failed(c) /\ accepted < CrowdConns) => ENABLED Accept(CrowdConns))
  /\ \A d \in Conns :
       ((\E c \in Conns \ {d} : Failed(c)) /\ Running(d) /\ conn[d].pc # "Accepted")
         ~> Finished(d)
C16_Witness ==
  \E c \in Conns : \E d \in Conns \ {c} :
    /\ Failed(c) /\ conn[c].end = "write_panic"
    /\ c < d
    /\ ClosedNormally(d) /\ conn[d].written = <<conn[d].out>> /\ conn[d].out # <<>>

Stalled(c) ==
  \/ conn[c].pc = "Handshaking"
  \/ conn[c].pc = "ReadingRequest" /\ conn[c].peer = "quiet"

\* C17: the accept loop never waits for a connection: while earlier
\* connections are stalled in Handshaking or ReadingRequest (their peers
\* doing nothing), the loop can accept the next connection, the task of a
\* newly accepted connection starts, and once its peer has acted it is
\* handled and closed.
C17_AcceptorNeverWaits ==
  /\ [](\A c \in Conns :
          (Stalled(c) /\ accepted < CrowdConns) => ENABLED Accept(CrowdConns))
  /\ \A d \in Conns :
       ((\E c \in 1..(d - 1) : Stalled(c)) /\ Running(d)) ~> (~Running(d))
  /\ [](\A d \in Conns :
          ((\E c \in 1..(d - 1) : Stalled(c)) /\ conn[d].pc = "Closed") => Finished(d))
C17_Witness ==
  \E c \in Conns : \E d \in Conns \ {c} :
    /\ c < d
    /\ conn[c].pc = "ReadingRequest" /\ conn[c].peer = "quiet"
    /\ ClosedNormally(d) /\ conn[d].written = <<conn[d].out>> /\ conn[d].out # <<>>

\* C18: when the read on a connection returned zero bytes, or bytes with
\* no CRLF in them, nothing is written to the stream, process_request is
\* not called (no request line, no parsed URL, no Response and so no
\* filesystem call), and the connection is closed.
C18_SilentDrop ==
  \A c \in Conns :
    (conn[c].reads > 0 /\ ~HasCrlf(conn[c].buffer))
    => /\ conn[c].pc = "Closed"
       /\ conn[c].written = <<>> /\ conn[c].out = <<>>
       /\ conn[c].line = <<>> /\ ~conn[c].url.ok /\ ~conn[c].response.some
C18_Witness ==
  \E c \in Conns : \E d \in Conns :
    /\ conn[c].reads = 1 /\ conn[c].peer = "closed" /\ conn[c].buffer = <<>>
    /\ ClosedNormally(c) /\ conn[c].written = <<>>
    /\ conn[d].reads = 1 /\ ByteLen(conn[d].buffer) = BufSize
    /\ ~HasCrlf(conn[d].buffer)
    /\ ClosedNormally(d) /\ conn[d].written = <<>>

\* C19: allowed_hosts contains the bind host from the start, no step
\* changes the Config, and every connection, whenever it was accepted,
\* holds the Config that was built at startup: the same port, document
\* root and allowed hosts.
C19_ConfigFixed ==
  /\ [](Contains(config.allowed_hosts, config.host))
  /\ [][config' = config]_vars
  /\ [](\A c \in Conns :
          /\ conn[c].pc # "Idle" => conn[c].config = Some(config)
          /\ conn[c].pc = "Idle" => conn[c].config = None)
  /\ [][\A c \in Conns : conn[c].pc # "Idle" => conn'[c].config = conn[c].config]_vars
C19_Witness ==
  \E c \in Conns : \E d \in Conns \ {c} :
    /\ conn[c].pc = "Closed" /\ conn[d].pc = "Accepted"
    /\ conn[c].config = conn[d].config
    /\ Len(config.allowed_hosts) > 1
    /\ config.host # DefaultHost
    /\ conn[d].config.v.allowed_hosts[Len(config.allowed_hosts)] = config.host

=============================================================================
